---- MODULE Spec2Model ----
(***************************************************************************)
(* Model of module/renpysound_core.c: the channel table, the mixer        *)
(* callback run by the audio thread, the control operations run by the    *)
(* application thread, the dying list and its periodic reaper.            *)
(*                                                                         *)
(* Two threads interleave.  The audio thread holds the audio lock for the *)
(* whole of one callback invocation (cb_pc # "idle"); a control operation *)
(* first runs check_channel and whatever else it does before LOCK_AUDIO,  *)
(* and then runs its locked section as one step, enabled only while the   *)
(* callback is idle.  Sections under the name lock are single steps.      *)
(*                                                                         *)
(* Floats take only the values 0.0 and 1.0 here and are written 0 and 1.  *)
(* A decoder handle is a positive integer, NULL is 0.                      *)
(***************************************************************************)
EXTENDS Integers, Sequences, FiniteSets, TLC

\* ---------------------------------------------------------------- bounds

\* Highest channel index a call may name.
MaxChannel == 0
\* Number of decoders media_open may hand out over an execution.
MaxHandles == 2
\* Longest stream, in sample-frames: the decoder reports end-of-data there.
MaxPos == 2
\* Sample-frames per callback invocation (length / 4).
Frames == 2
\* Highest channel index a call may name when the control operations are
\* checked on their own.
ApiMaxChannel == 1
TableMaxChannel == 1
MixMaxChannel == 1
PosMaxChannel == 1

\* audio_spec.freq as given to RPS_init.
Freq == 1000

NULL == 0

\* The values of RPS_error.
SUCCESS == 0
SOUND_ERROR == -2
RPS_ERROR == -3

MAX_SHORT == 32767
MIN_SHORT == -32768
NoName == ""

Handles == 1..MaxHandles
FrameIds == 0..(Frames - 1)
Names == {"a"}
FadeinMs == {0, 1}
FadeoutMs == {0, 1}
Flags == {0, 1}
StartSeconds == {0}
Volumes == {0, 1}
VideoModes == {0, 1}
EventTypes == {0, 1}

\* ------------------------------------------------------- pure functions

ms_to_samples(ms) == (ms * Freq) \div 1000

samples_to_ms(samples) == (samples * 1000) \div Freq

init_interpolate(value) ==
    [done |-> 0, duration |-> 0, start |-> value, end |-> value]

\* done is passed as the fraction num/den.
lerp(start, end, num, den) == start + ((end - start) * num) \div den

get_interpolate(i) ==
    IF i.done >= i.duration THEN i.end
    ELSE lerp(i.start, i.end, i.done, i.duration)

\* A channel as check_channel initialises it.  played is an observer, no
\* field of struct Channel: the number of frames mixed so far from the
\* stream that is in the playing slot.
new_channel ==
    [playing |-> NULL, playing_name |-> NoName, playing_fadein |-> 0,
     playing_tight |-> 0, playing_start_ms |-> 0,
     queued |-> NULL, queued_name |-> NoName, queued_fadein |-> 0,
     queued_tight |-> 0, queued_start_ms |-> 0,
     paused |-> 1, mixer_volume |-> 1, pos |-> 0,
     fade |-> init_interpolate(1), stop_samples |-> 0, event |-> 0,
     video |-> 0, played |-> 0]

start_stream_always_reset(c, reset_fade) ==
    [c EXCEPT !.pos = 0,
              !.fade = [start |-> 0, end |-> 1, done |-> 0,
                        duration |-> ms_to_samples(c.playing_fadein)],
              !.stop_samples = -1]

start_stream(c, reset_fade) ==
    IF reset_fade # 0
    THEN [c EXCEPT !.pos = 0,
                   !.fade = [start |-> 0, end |-> 1, done |-> 0,
                             duration |-> ms_to_samples(c.playing_fadein)],
                   !.stop_samples = -1]
    ELSE [c EXCEPT !.pos = 0]

\* media_close on one handle: the decoder counts its closes.
free_stream(cl, h) == [cl EXCEPT ![h] = @ + 1]

\* "if (c->x) free_stream(c->x)" for each slot of hs in turn.
RECURSIVE free_slots(_, _)
free_slots(cl, hs) ==
    IF hs = <<>> THEN cl
    ELSE free_slots(IF Head(hs) = NULL THEN cl ELSE free_stream(cl, Head(hs)),
                    Tail(hs))

\* SDL_PushEvent of c->event, logged against the stream in the playing slot.
post_event(po, c) ==
    IF c.event = 0 THEN po ELSE [po EXCEPT ![c.playing] = @ + 1]

check_channel_table_reset_all(chs, num, c) ==
    IF c >= num
    THEN [i \in DOMAIN chs |-> IF i <= c THEN new_channel ELSE chs[i]]
    ELSE chs

\* The table after check_channel(c): indices num..c are created.
check_channel_table(chs, num, c) ==
    IF c >= num
    THEN [i \in DOMAIN chs |->
             IF i >= num /\ i <= c THEN new_channel ELSE chs[i]]
    ELSE chs

check_channel_count(num, c) == IF c >= num THEN c + 1 ELSE num

\* ------------------------------------------- control operations on a channel

\* RPS_play, "Free playing and queued samples".
play_free(c) ==
    LET c1 == IF c.playing # NULL
              THEN [c EXCEPT !.playing = NULL, !.playing_name = NoName,
                             !.playing_tight = 0, !.playing_start_ms = 0]
              ELSE c
    IN  IF c1.queued # NULL
        THEN [c1 EXCEPT !.queued = NULL, !.queued_name = NoName,
                        !.queued_tight = 0, !.queued_start_ms = 0]
        ELSE c1

\* RPS_play after a successful load_stream that returned h.
play_load(c, h, a) ==
    start_stream([c EXCEPT !.playing = h, !.playing_name = a.name,
                           !.playing_fadein = a.fadein,
                           !.playing_tight = a.tight,
                           !.playing_start_ms = a.start * 1000,
                           !.paused = a.paused, !.played = 0], 1)

queue_free_nothing(c) == c

\* RPS_queue, "Free queued sample".
queue_free(c) ==
    IF c.queued # NULL
    THEN [c EXCEPT !.queued = NULL, !.queued_name = NoName, !.queued_tight = 0]
    ELSE c

\* RPS_queue after a successful load_stream that returned h.
queue_load(c, h, a) ==
    [c EXCEPT !.queued = h, !.queued_name = a.name, !.queued_fadein = a.fadein,
              !.queued_tight = a.tight, !.queued_start_ms = a.start * 1000]

\* RPS_stop, "if (c->playing) post_event(c)".
stop_posted(po, c) == IF c.playing # NULL THEN post_event(po, c) ELSE po

stop_frees_playing_only(c) == <<c.playing>>

\* The slots RPS_stop hands to free_stream.
stop_frees(c) == <<c.playing, c.queued>>

stop_channel_keep_queued(c) ==
    IF c.playing # NULL
    THEN [c EXCEPT !.playing = NULL, !.playing_name = NoName,
                   !.playing_start_ms = 0]
    ELSE c

\* RPS_stop, "Free playing and queued samples".
stop_channel(c) ==
    LET c1 == IF c.playing # NULL
              THEN [c EXCEPT !.playing = NULL, !.playing_name = NoName,
                             !.playing_start_ms = 0]
              ELSE c
    IN  IF c1.queued # NULL
        THEN [c1 EXCEPT !.queued = NULL, !.queued_name = NoName,
                        !.queued_start_ms = 0]
        ELSE c1

dequeue_frees_ignoring_tight(c, even_tight) == c.queued # NULL

\* Does RPS_dequeue free the queued stream?
dequeue_frees(c, even_tight) ==
    c.queued # NULL /\ (c.playing_tight = 0 \/ even_tight # 0)

dequeue_channel(c, even_tight) ==
    LET c1 == IF dequeue_frees(c, even_tight)
              THEN [c EXCEPT !.queued = NULL, !.queued_name = NoName]
              ELSE [c EXCEPT !.queued_tight = 0]
    IN  [c1 EXCEPT !.queued_start_ms = 0]

fadeout_channel_no_immediate_stop(c, ms) ==
    IF ms = 0
    THEN c
    ELSE LET f1 == [c.fade EXCEPT !.done = 0, !.duration = ms_to_samples(ms)]
             f2 == [f1 EXCEPT !.start = get_interpolate(f1)]
             f3 == [f2 EXCEPT !.end = 0]
             c1 == [c EXCEPT !.fade = f3, !.stop_samples = ms_to_samples(ms),
                             !.queued_tight = 0]
         IN  IF c1.queued = NULL THEN [c1 EXCEPT !.playing_tight = 0] ELSE c1

\* RPS_fadeout under the audio lock.  The assignments are made in the
\* source's order: done and duration are overwritten before get_interpolate
\* reads them.
fadeout_channel(c, ms) ==
    IF ms = 0
    THEN [c EXCEPT !.stop_samples = 0]
    ELSE LET f1 == [c.fade EXCEPT !.done = 0, !.duration = ms_to_samples(ms)]
             f2 == [f1 EXCEPT !.start = get_interpolate(f1)]
             f3 == [f2 EXCEPT !.end = 0]
             c1 == [c EXCEPT !.fade = f3, !.stop_samples = ms_to_samples(ms),
                             !.queued_tight = 0]
         IN  IF c1.queued = NULL THEN [c1 EXCEPT !.playing_tight = 0] ELSE c1

push_dying_drop_next(dy, h) == <<h>>

\* The callback's push on the dying list: d->next = dying; d->stream = h;
\* dying = d.
push_dying(dy, h) == <<h>> \o dy

promote_only_if_queued(c) ==
    IF c.queued = NULL THEN c
    ELSE [c EXCEPT !.playing = c.queued, !.playing_name = c.queued_name,
                   !.playing_fadein = c.queued_fadein,
                   !.playing_tight = c.queued_tight,
                   !.playing_start_ms = c.queued_start_ms,
                   !.queued = NULL, !.queued_name = NoName,
                   !.queued_fadein = 0, !.queued_tight = 0,
                   !.queued_start_ms = 0, !.played = 0]

promote_keeping_queued(c) ==
    [c EXCEPT !.playing = c.queued, !.playing_name = c.queued_name,
              !.playing_fadein = c.queued_fadein,
              !.playing_tight = c.queued_tight,
              !.playing_start_ms = c.queued_start_ms, !.played = 0]

\* The callback's promotion of the queued slot, under the name lock.
promote(c) ==
    [c EXCEPT !.playing = c.queued, !.playing_name = c.queued_name,
              !.playing_fadein = c.queued_fadein,
              !.playing_tight = c.queued_tight,
              !.playing_start_ms = c.queued_start_ms,
              !.queued = NULL, !.queued_name = NoName, !.queued_fadein = 0,
              !.queued_tight = 0, !.queued_start_ms = 0, !.played = 0]

old_tight_ignoring_fadein(p, old_tight) == old_tight

\* "if (c->playing_fadein) old_tight = 0", p being the channel after the
\* promotion.
old_tight_fadein(p, old_tight) ==
    IF p.playing_fadein # 0 THEN 0 ELSE old_tight

\* The queries, as computed under the name lock.
queue_depth(c) ==
    (IF c.playing # NULL THEN 1 ELSE 0) + (IF c.queued # NULL THEN 1 ELSE 0)

get_pos(c) ==
    IF c.playing # NULL THEN samples_to_ms(c.pos) + c.playing_start_ms ELSE -1

playing_name(c) == c.playing_name

\* ---------------------------------------------------------------- state

VARIABLES
    initialized,    \* RPS_init has run and RPS_quit has not
    num_channels,
    channels,       \* the channel table; entries >= num_channels are not in use
    dying,          \* the dying list, head first
    closed,         \* per handle, the number of media_close calls on it
    posted,         \* per handle, the events pushed while it was playing;
                    \* posted[NULL] counts events pushed for an empty channel
    next_handle,    \* the handle the next successful media_open returns
    app_pc,         \* where the application thread is
    app_ch,         \* the channel argument of the call it is in
    periodic_d,     \* RPS_periodic's local list d
    app_locks,      \* the locks ("audio", "name") the application thread holds
    cb_pc,          \* where the audio thread is in callback
    cb_channel,     \* callback's loop variable channel
    cb_mixed,       \* callback's local mixed
    cb_read,        \* callback's local read_length at end-of-stream handling
    cb_old_tight,   \* callback's local old_tight
    error,          \* RPS_error
    inputs,         \* the sets the application's arguments and the
                    \* decoders' samples are drawn from; never changed
    observing,      \* the operations whose calls the observers
                    \* (last_call, cb_pos0) record; never changed
    rv,             \* the value the last query returned
    stream_buffer,  \* callback's local stream_buffer, one sample per frame
    mix_buffer,     \* callback's local mix_buffer, in units of 1/32768
    stream,         \* the device buffer callback fills
    cb_delivered,   \* an observer: per output frame, the sum of the samples
                    \* the decoders delivered for it in this invocation
    cb_pos0,        \* an observer: pos of the current channel when
                    \* callback reached it
    cb_ended,       \* streams the current channel's loop has ended so far
    last_call       \* per channel, an observer of the call history: the
                    \* call that was the last control operation on it:
                    \* RPS_fadeout (on an unpaused, playing channel, with
                    \* its ms), RPS_stop, RPS_dequeue (with even_tight as
                    \* ms), RPS_play or RPS_queue, with the streams a and
                    \* b in the playing and the queued slot, a's tight
                    \* flag and b's fade-in

vars == <<initialized, num_channels, channels, dying, closed, posted,
          next_handle, app_pc, app_ch, periodic_d, app_locks, cb_pc,
          cb_channel,
          cb_mixed, cb_read, cb_old_tight, cb_ended, last_call, error,
          inputs, observing, rv, cb_pos0, stream_buffer, mix_buffer, stream,
          cb_delivered>>

app_vars == <<app_pc, app_ch, periodic_d, app_locks>>
cb_vars == <<cb_pc, cb_channel, cb_mixed, cb_read, cb_old_tight, cb_ended,
             cb_pos0, stream_buffer, mix_buffer, stream, cb_delivered>>
fixed_vars == <<inputs, observing>>

\* The channel numbers the table can hold: the valid ones among those the
\* application uses.
ChanIds == {c \in inputs.channel : c >= 0}

NoCall ==
    [op |-> "other", ms |-> -1, a |-> NULL, b |-> NULL, a_tight |-> 0,
     b_fadein |-> 0]

\* The observer's record of a call that found a in the playing and b in the
\* queued slot (for play and queue: that left them there).
Call(op, a, b) ==
    IF op \in observing
    THEN [NoCall EXCEPT !.op = op, !.a = a, !.b = b]
    ELSE NoCall

\* The state of a fresh process whose application draws its arguments
\* from inp.
InitWith(inp, obs) ==
    /\ inputs = inp
    /\ observing = obs
    /\ rv = 0
    /\ cb_pos0 = 0
    /\ stream_buffer = [m \in FrameIds |-> 0]
    /\ mix_buffer = [m \in FrameIds |-> 0]
    /\ stream = [m \in FrameIds |-> 0]
    /\ cb_delivered = [m \in FrameIds |-> 0]
    /\ initialized = 0
    /\ num_channels = 0
    /\ channels = [i \in ChanIds |-> new_channel]
    /\ dying = <<>>
    /\ closed = [h \in Handles |-> 0]
    /\ posted = [h \in {NULL} \cup Handles |-> 0]
    /\ next_handle = 1
    /\ app_pc = "idle"
    /\ app_ch = 0
    /\ periodic_d = <<>>
    /\ app_locks = {}
    /\ cb_pc = "idle"
    /\ cb_channel = 0
    /\ cb_mixed = 0
    /\ cb_read = 0
    /\ cb_old_tight = 0
    /\ cb_ended = 0
    /\ last_call = [i \in ChanIds |-> NoCall]
    /\ error = SUCCESS

MainInputs ==
    [channel |-> 0..MaxChannel, start |-> StartSeconds, fadein |-> FadeinMs,
     tight |-> Flags, paused |-> Flags, fadeout |-> FadeoutMs,
     event |-> EventTypes, volume |-> Volumes, video |-> VideoModes,
     sample |-> {0}]

Init ==
    InitWith(MainInputs,
             {"stop", "fadeout", "callback", "queue_play", "dequeue"})

\* ----------------------------------------------- application thread

\* A control operation up to its LOCK_AUDIO: check_channel(ch), then the
\* thread waits for the audio lock at pc.  The call's other arguments are
\* not read before the lock is held and are drawn there.
enter(pc, ch) ==
    /\ app_pc = "idle"
    /\ IF ch < 0
       THEN /\ error' = RPS_ERROR
            /\ UNCHANGED <<channels, num_channels, app_pc, app_ch>>
       ELSE /\ channels' = check_channel_table(channels, num_channels, ch)
            /\ num_channels' = check_channel_count(num_channels, ch)
            /\ app_pc' = pc
            /\ app_ch' = ch
            /\ UNCHANGED error
    /\ UNCHANGED <<initialized, dying, closed, posted, next_handle, periodic_d,
                   app_locks,
                   cb_vars, last_call, fixed_vars, rv>>

\* The end of a locked section: UNLOCK_AUDIO, error(err) and return.
leave(ch, err, call) ==
    /\ error' = err
    /\ app_pc' = "idle"
    /\ app_ch' = 0
    /\ app_locks' = app_locks \ {"audio"}
    /\ last_call' = [last_call EXCEPT ![ch] = call]
    /\ UNCHANGED <<initialized, num_channels, dying, periodic_d, cb_vars,
                   fixed_vars, rv>>

RPS_play_check ==
    \E ch \in inputs.channel : enter("play", ch)

\* RPS_play from LOCK_AUDIO on, with the arguments a; ok is whether
\* load_stream succeeds.
play_locked(a) ==
    /\ cb_pc = "idle"
    /\ \E ok \in BOOLEAN :
        LET c == channels[app_ch]
            c1 == play_free(c)
        IN  /\ ok => next_handle <= MaxHandles
            /\ closed' = free_slots(closed, <<c.playing, c.queued>>)
            /\ channels' = [channels EXCEPT ![app_ch] =
                              IF ok THEN play_load(c1, next_handle, a)
                              ELSE c1]
            /\ next_handle' = IF ok THEN next_handle + 1 ELSE next_handle
            /\ leave(app_ch, IF ok THEN SUCCESS ELSE SOUND_ERROR,
                     Call(app_pc, IF ok THEN next_handle ELSE NULL, NULL))
    /\ UNCHANGED posted

RPS_play_locked ==
    /\ app_pc = "play"
    /\ \E name \in Names, fadein \in inputs.fadein, tight \in inputs.tight,
          paused \in inputs.paused, start \in inputs.start :
          play_locked([name |-> name, fadein |-> fadein, tight |-> tight,
                       paused |-> paused, start |-> start])

\* RPS_queue up to its LOCK_AUDIO: check_channel, then the unlocked test of
\* c->playing that chooses between delegating to RPS_play and queueing.
RPS_queue_check ==
    \E ch \in inputs.channel :
        LET tested == check_channel_table(channels, num_channels, ch)[ch]
        IN  enter(IF ch >= 0 /\ tested.playing # NULL THEN "queue"
                  ELSE "queue_play", ch)

RPS_queue_play_locked_keep_paused ==
    /\ app_pc = "queue_play"
    /\ \E name \in Names, fadein \in inputs.fadein, tight \in inputs.tight,
          start \in inputs.start :
          play_locked([name |-> name, fadein |-> fadein, tight |-> tight,
                       paused |-> channels[app_ch].paused, start |-> start])

\* RPS_queue's call of RPS_play with paused = 0, from LOCK_AUDIO on.
RPS_queue_play_locked ==
    /\ app_pc = "queue_play"
    /\ \E name \in Names, fadein \in inputs.fadein, tight \in inputs.tight,
          start \in inputs.start :
          play_locked([name |-> name, fadein |-> fadein, tight |-> tight,
                       paused |-> 0, start |-> start])

RPS_queue_locked ==
    /\ app_pc = "queue"
    /\ cb_pc = "idle"
    /\ \E ok \in BOOLEAN, name \in Names, fadein \in inputs.fadein,
          tight \in inputs.tight, start \in inputs.start :
        LET c == channels[app_ch]
            c1 == queue_free(c)
            a == [name |-> name, fadein |-> fadein, tight |-> tight,
                  start |-> start]
        IN  /\ ok => next_handle <= MaxHandles
            /\ closed' = free_slots(closed, <<c.queued>>)
            /\ channels' = [channels EXCEPT ![app_ch] =
                              IF ok THEN queue_load(c1, next_handle, a)
                              ELSE c1]
            /\ next_handle' = IF ok THEN next_handle + 1 ELSE next_handle
            /\ leave(app_ch, IF ok THEN SUCCESS ELSE SOUND_ERROR,
                     Call("queue", c.playing,
                          IF ok THEN next_handle ELSE NULL))
    /\ UNCHANGED posted

RPS_stop_check ==
    \E ch \in inputs.channel : enter("stop", ch)

RPS_stop_locked ==
    /\ app_pc = "stop"
    /\ cb_pc = "idle"
    /\ LET c == channels[app_ch]
       IN  /\ posted' = stop_posted(posted, c)
           /\ closed' = free_slots(closed, stop_frees(c))
           /\ channels' = [channels EXCEPT ![app_ch] = stop_channel(c)]
           /\ last_call' = [last_call EXCEPT ![app_ch] =
                  Call("stop", c.playing, c.queued)]
    /\ app_pc' = "idle"
    /\ app_ch' = 0
    /\ app_locks' = app_locks \ {"audio"}
    /\ error' = SUCCESS
    /\ UNCHANGED <<initialized, num_channels, dying, next_handle, periodic_d,
                   cb_vars, fixed_vars, rv>>

RPS_dequeue_check ==
    \E ch \in inputs.channel : enter("dequeue", ch)

RPS_dequeue_locked ==
    /\ app_pc = "dequeue"
    /\ cb_pc = "idle"
    /\ \E even_tight \in inputs.tight :
        LET c == channels[app_ch]
        IN  /\ closed' = IF dequeue_frees(c, even_tight)
                         THEN free_slots(closed, <<c.queued>>)
                         ELSE closed
            /\ channels' = [channels EXCEPT ![app_ch] =
                               dequeue_channel(c, even_tight)]
            /\ leave(app_ch, SUCCESS,
                     [Call("dequeue", c.playing, c.queued)
                         EXCEPT !.ms = IF "dequeue" \in observing
                                       THEN even_tight ELSE -1])
    /\ UNCHANGED <<posted, next_handle>>

RPS_fadeout_check ==
    \E ch \in inputs.channel : enter("fadeout", ch)

RPS_fadeout_locked ==
    /\ app_pc = "fadeout"
    /\ cb_pc = "idle"
    /\ \E ms \in inputs.fadeout :
        LET c == channels[app_ch]
        IN  /\ channels' = [channels EXCEPT ![app_ch] = fadeout_channel(c, ms)]
            /\ last_call' = [last_call EXCEPT ![app_ch] =
                   IF "fadeout" \in observing /\ c.playing # NULL
                      /\ c.paused = 0
                   THEN [op |-> "fadeout", ms |-> ms, a |-> c.playing,
                         b |-> c.queued, a_tight |-> c.playing_tight,
                         b_fadein |-> IF c.queued # NULL THEN c.queued_fadein
                                      ELSE 0]
                   ELSE NoCall]
    /\ app_pc' = "idle"
    /\ app_ch' = 0
    /\ app_locks' = app_locks \ {"audio"}
    /\ error' = SUCCESS
    /\ UNCHANGED <<initialized, num_channels, dying, closed, posted,
                   next_handle, periodic_d, cb_vars, fixed_vars, rv>>

\* RPS_pause: no lock is taken.
RPS_pause ==
    \E ch \in inputs.channel, pause \in inputs.paused :
        /\ app_pc = "idle"
        /\ IF ch < 0
           THEN /\ error' = RPS_ERROR
                /\ UNCHANGED <<channels, num_channels, last_call>>
           ELSE /\ channels' = [check_channel_table(channels, num_channels, ch)
                                   EXCEPT ![ch].paused = pause]
                /\ num_channels' = check_channel_count(num_channels, ch)
                /\ last_call' = [last_call EXCEPT ![ch] = NoCall]
                /\ error' = SUCCESS
        /\ UNCHANGED <<initialized, dying, closed, posted, next_handle,
                       app_vars, cb_vars, fixed_vars, rv>>

\* RPS_unpause_all_at_start: its second loop.
RPS_unpause_all_at_start ==
    /\ app_pc = "idle"
    /\ \E i \in ChanIds :
          i < num_channels /\ channels[i].playing # NULL
          /\ channels[i].pos = 0 /\ channels[i].paused # 0
    /\ channels' = [i \in ChanIds |->
          IF i < num_channels /\ channels[i].playing # NULL
             /\ channels[i].pos = 0
          THEN [channels[i] EXCEPT !.paused = 0]
          ELSE channels[i]]
    /\ last_call' = [i \in ChanIds |-> NoCall]
    /\ error' = SUCCESS
    /\ UNCHANGED <<initialized, num_channels, dying, closed, posted,
                   next_handle, app_vars, cb_vars, fixed_vars, rv>>

\* RPS_set_endevent: no lock is taken.
RPS_set_endevent ==
    \E ch \in inputs.channel, event \in inputs.event :
        /\ app_pc = "idle"
        /\ IF ch < 0
           THEN /\ error' = RPS_ERROR
                /\ UNCHANGED <<channels, num_channels>>
           ELSE /\ channels' = [check_channel_table(channels, num_channels, ch)
                                   EXCEPT ![ch].event = event]
                /\ num_channels' = check_channel_count(num_channels, ch)
                /\ error' = SUCCESS
        /\ UNCHANGED <<initialized, dying, closed, posted, next_handle,
                       app_vars, cb_vars, last_call, fixed_vars, rv>>

\* RPS_set_volume: no lock is taken.
RPS_set_volume ==
    \E ch \in inputs.channel, volume \in inputs.volume :
        /\ app_pc = "idle"
        /\ IF ch < 0
           THEN /\ error' = RPS_ERROR
                /\ UNCHANGED <<channels, num_channels>>
           ELSE /\ channels' = [check_channel_table(channels, num_channels, ch)
                                   EXCEPT ![ch].mixer_volume = volume]
                /\ num_channels' = check_channel_count(num_channels, ch)
                /\ error' = SUCCESS
        /\ UNCHANGED <<initialized, dying, closed, posted, next_handle,
                       app_vars, cb_vars, last_call, fixed_vars, rv>>

\* RPS_set_video: no lock is taken, and RPS_error is not assigned on the
\* way out.
RPS_set_video ==
    \E ch \in inputs.channel, video \in inputs.video :
        /\ app_pc = "idle"
        /\ IF ch < 0
           THEN /\ error' = RPS_ERROR
                /\ UNCHANGED <<channels, num_channels>>
           ELSE /\ channels' = [check_channel_table(channels, num_channels, ch)
                                   EXCEPT ![ch].video = video]
                /\ num_channels' = check_channel_count(num_channels, ch)
                /\ UNCHANGED error
        /\ UNCHANGED <<initialized, dying, closed, posted, next_handle,
                       app_vars, cb_vars, last_call, fixed_vars, rv>>

\* The channel a query reads, after its check_channel(ch).
checked_channel(ch) == check_channel_table(channels, num_channels, ch)[ch]

\* A query: check_channel, then value, computed from the channel (under
\* the name lock where the query takes it), error(SUCCESS), return.  On a
\* negative channel it returns failed.
query(ch, failed, value) ==
    /\ app_pc = "idle"
    /\ IF ch < 0
       THEN /\ error' = RPS_ERROR
            /\ rv' = failed
            /\ UNCHANGED <<channels, num_channels>>
       ELSE /\ channels' = check_channel_table(channels, num_channels, ch)
            /\ num_channels' = check_channel_count(num_channels, ch)
            /\ rv' = value
            /\ error' = SUCCESS
    /\ UNCHANGED <<initialized, dying, closed, posted, next_handle, app_vars,
                   cb_vars, last_call, fixed_vars>>

get_volume(c) == c.mixer_volume

RPS_get_volume ==
    \E ch \in inputs.channel : query(ch, 0, get_volume(checked_channel(ch)))

RPS_queue_depth ==
    \E ch \in inputs.channel : query(ch, 0, queue_depth(checked_channel(ch)))

RPS_get_pos ==
    \E ch \in inputs.channel : query(ch, -1, get_pos(checked_channel(ch)))

\* RPS_init: it returns at once when already initialized; otherwise the
\* device is opened and unpaused.
RPS_init ==
    /\ app_pc = "idle"
    /\ IF initialized # 0
       THEN UNCHANGED <<initialized, error>>
       ELSE /\ initialized' = 1
            /\ error' = SUCCESS
    /\ UNCHANGED <<num_channels, channels, dying, closed, posted, next_handle,
                   app_vars, cb_vars, last_call, fixed_vars, rv>>

\* RPS_quit when initialized: the device is paused under the audio lock, so
\* no callback runs from then on; RPS_stop on every channel; the count is
\* set to 0.
RECURSIVE quit_closed(_, _, _)
quit_closed(cl, chs, i) ==
    IF i >= num_channels THEN cl
    ELSE quit_closed(free_slots(cl, stop_frees(chs[i])), chs, i + 1)

RECURSIVE quit_posted(_, _, _)
quit_posted(po, chs, i) ==
    IF i >= num_channels THEN po
    ELSE quit_posted(stop_posted(po, chs[i]), chs, i + 1)

RPS_quit ==
    /\ app_pc = "idle"
    /\ initialized # 0
    /\ cb_pc = "idle"
    /\ closed' = quit_closed(closed, channels, 0)
    /\ posted' = quit_posted(posted, channels, 0)
    /\ channels' = [i \in ChanIds |->
          IF i < num_channels THEN stop_channel(channels[i]) ELSE channels[i]]
    /\ num_channels' = 0
    /\ initialized' = 0
    /\ last_call' = [i \in ChanIds |-> NoCall]
    /\ error' = SUCCESS
    /\ UNCHANGED <<dying, next_handle, app_vars, cb_vars, fixed_vars, rv>>

\* RPS_periodic under the name lock: d = dying; dying = NULL.
RPS_periodic_detach ==
    /\ app_pc = "idle"
    /\ app_pc' = "periodic"
    /\ periodic_d' = dying
    /\ dying' = <<>>
    /\ UNCHANGED <<initialized, num_channels, channels, closed, posted,
                   next_handle, app_ch, app_locks, cb_vars, last_call,
                   error, fixed_vars, rv>>

\* One iteration of RPS_periodic's while (d), or its exit.
RPS_periodic_drain ==
    /\ app_pc = "periodic"
    /\ IF periodic_d = <<>>
       THEN /\ app_pc' = "idle"
            /\ UNCHANGED <<closed, periodic_d>>
       ELSE /\ closed' = free_stream(closed, Head(periodic_d))
            /\ periodic_d' = Tail(periodic_d)
            /\ UNCHANGED app_pc
    /\ UNCHANGED <<initialized, num_channels, channels, dying, posted,
                   next_handle, app_ch, app_locks, cb_vars, last_call,
                   error, fixed_vars, rv>>

\* ------------------------------------------------------ audio thread

\* mix_sample: in / 32768 is added to the accumulator, which is kept here
\* in units of 1/32768.
mix_sample(out, in) == out + in

\* The number of binary digits of x >= 0.
RECURSIVE Bits(_)
Bits(x) == IF x = 0 THEN 0 ELSE 1 + Bits(x \div 2)

RECURSIVE Pow2(_)
Pow2(n) == IF n = 0 THEN 1 ELSE 2 * Pow2(n - 1)

\* x >= 0 rounded to a 24-digit significand, to nearest, ties to even: the
\* single-precision product of the accumulator and MAX_SHORT.
RoundFloat(x) ==
    LET drop == Bits(x) - 24
    IN  IF drop <= 0 THEN x
        ELSE LET unit == Pow2(drop)
                 q == x \div unit
                 r == x % unit
                 up == (2 * r > unit) \/ (2 * r = unit /\ q % 2 = 1)
             IN  (IF up THEN q + 1 ELSE q) * unit

output_sample_wrapping(mix, wide) ==
    LET product == (IF mix < 0 THEN -mix ELSE mix) * MAX_SHORT
        mag == (IF wide THEN product ELSE RoundFloat(product))
                   \div (-MIN_SHORT)
        v == IF mix < 0 THEN -mag ELSE mag
    IN  ((v - MIN_SHORT) % 65536) + MIN_SHORT

\* "Actually output the sound": int v = mix * MAX_SHORT, truncated towards
\* zero, then clamped to MIN_SHORT .. MAX_SHORT.  The product is rounded to
\* single precision unless the build evaluates float expressions in a
\* wider format (wide), where it is exact.
output_sample(mix, wide) ==
    LET product == (IF mix < 0 THEN -mix ELSE mix) * MAX_SHORT
        mag == (IF wide THEN product ELSE RoundFloat(product))
                   \div (-MIN_SHORT)
        v == IF mix < 0 THEN -mag ELSE mag
    IN  IF v > MAX_SHORT THEN MAX_SHORT
        ELSE IF v < MIN_SHORT THEN MIN_SHORT ELSE v

\* The device calls callback with the audio lock held: it is open and
\* unpaused, and no control operation holds the audio lock.
\* mix_buffer is zeroed; stream_buffer is not initialised (the two are
\* locals, gone when callback returns; mix_buffer is kept until the next
\* invocation so that the output can be compared with it).
callback_begin ==
    /\ cb_pc = "idle"
    /\ "audio" \notin app_locks
    /\ initialized # 0
    /\ cb_pc' = "channel"
    /\ cb_channel' = 0
    /\ mix_buffer' = [m \in FrameIds |-> 0]
    /\ cb_delivered' = [m \in FrameIds |-> 0]
    /\ \E garbage \in [FrameIds -> inputs.sample] : stream_buffer' = garbage
    /\ UNCHANGED <<initialized, num_channels, channels, dying, closed, posted,
                   next_handle, app_vars, cb_mixed, cb_read, cb_old_tight,
                   cb_ended, cb_pos0, stream, last_call, error, fixed_vars,
                   rv>>

\* The head of "for (channel ...)" and the two tests that skip a channel;
\* after the last channel, "Actually output the sound".
callback_channel ==
    /\ cb_pc = "channel"
    /\ IF cb_channel >= num_channels
       THEN /\ cb_pc' = "idle"
            /\ cb_channel' = 0
            /\ \E wide \in BOOLEAN :
                  stream' = [m \in FrameIds |->
                                output_sample(mix_buffer[m], wide)]
            /\ stream_buffer' = [m \in FrameIds |-> 0]
            /\ cb_delivered' = [m \in FrameIds |-> 0]
            /\ UNCHANGED <<cb_pos0, mix_buffer>>
       ELSE IF channels[cb_channel].playing = NULL
               \/ channels[cb_channel].paused # 0
       THEN /\ cb_pc' = "channel"
            /\ cb_channel' = cb_channel + 1
            /\ UNCHANGED <<stream, cb_pos0, stream_buffer, mix_buffer,
                           cb_delivered>>
       ELSE /\ cb_pc' = "mix"
            /\ cb_pos0' = IF "callback" \in observing
                           THEN channels[cb_channel].pos ELSE 0
            /\ UNCHANGED <<cb_channel, stream, stream_buffer, mix_buffer,
                           cb_delivered>>
    /\ cb_mixed' = 0
    /\ cb_ended' = 0
    /\ UNCHANGED <<initialized, num_channels, channels, dying, closed, posted,
                   next_handle, app_vars, cb_read, cb_old_tight, last_call,
                   error, fixed_vars, rv>>

\* The number of frames the inner loop mixes of read_length decoded ones: it
\* stops when stop_samples reaches 0.
mixable(c, read_length) ==
    IF c.stop_samples > 0 /\ c.stop_samples < read_length
    THEN c.stop_samples ELSE read_length

mix_frames_counting_reads(c, read_length) ==
    [c EXCEPT !.pos = @ + read_length,
              !.played = @ + mixable(c, read_length),
              !.stop_samples = IF @ > 0 THEN @ - mixable(c, read_length)
                               ELSE @]

\* The channel after the inner loop: pos advanced, stop_samples counted down.
mix_frames(c, read_length) ==
    [c EXCEPT !.pos = @ + mixable(c, read_length),
              !.played = @ + mixable(c, read_length),
              !.stop_samples = IF @ > 0 THEN @ - mixable(c, read_length)
                               ELSE @]

\* stream_buffer after media_read_audio has stored the frames of data from
\* its start on.
read_audio(buf, data) ==
    [m \in FrameIds |-> IF m < Len(data) THEN data[m + 1] ELSE buf[m]]

\* mix_buffer after the inner loop has mixed k frames with mixed = m0 at its
\* start: it takes the frame for output position m from stream_buffer[m].
mix_loop(mix, buf, m0, k) ==
    [m \in FrameIds |->
        IF m >= m0 /\ m < m0 + k THEN mix_sample(mix[m], buf[m]) ELSE mix[m]]

\* The observer's account of the same k frames: output position m0 + i is
\* due the i-th frame of data.
deliver(del, data, m0, k) ==
    [m \in FrameIds |->
        IF m >= m0 /\ m < m0 + k THEN del[m] + data[m - m0 + 1] ELSE del[m]]

\* One iteration of "while (mixed < length && c->playing)", or its exit.
\* media_read_audio returns between 0 and mixleft frames, 0 being
\* end-of-data.  On end of stream the iteration goes as far as post_event.
callback_mix ==
    /\ cb_pc = "mix"
    /\ LET c == channels[cb_channel]
       IN  IF ~(cb_mixed < Frames /\ c.playing # NULL)
           THEN /\ cb_pc' = "channel"
                /\ cb_channel' = cb_channel + 1
                /\ cb_mixed' = 0
                /\ cb_ended' = 0
                /\ cb_pos0' = 0
                /\ UNCHANGED <<channels, posted, cb_read, cb_old_tight,
                               stream_buffer, mix_buffer, cb_delivered>>
           ELSE \E read_length \in 0..(Frames - cb_mixed) :
                \E data \in [1..read_length -> inputs.sample] :
                /\ c.pos + read_length <= MaxPos
                /\ stream_buffer' = read_audio(stream_buffer, data)
                /\ IF c.stop_samples = 0 \/ read_length = 0
                   THEN /\ cb_old_tight' = c.playing_tight
                        /\ posted' = post_event(posted, c)
                        /\ cb_read' = read_length
                        /\ cb_pc' = "lock_name"
                        /\ UNCHANGED <<channels, cb_mixed, mix_buffer,
                                       cb_delivered>>
                   ELSE /\ channels' = [channels EXCEPT ![cb_channel] =
                                           mix_frames(c, read_length)]
                        /\ cb_mixed' = cb_mixed + mixable(c, read_length)
                        /\ mix_buffer' =
                              mix_loop(mix_buffer, stream_buffer', cb_mixed,
                                       mixable(c, read_length))
                        /\ cb_delivered' =
                              deliver(cb_delivered, data, cb_mixed,
                                      mixable(c, read_length))
                        /\ UNCHANGED <<posted, cb_read, cb_old_tight, cb_pc>>
                /\ UNCHANGED <<cb_channel, cb_ended, cb_pos0>>
    /\ UNCHANGED <<initialized, num_channels, dying, closed, next_handle,
                   app_vars, stream, last_call, error, fixed_vars, rv>>

callback_promote_closing ==
    /\ cb_pc = "lock_name"
    /\ "name" \notin app_locks
    /\ LET c == channels[cb_channel]
       IN  /\ closed' = free_stream(closed, c.playing)
           /\ channels' = [channels EXCEPT ![cb_channel] = promote(c)]
           /\ cb_old_tight' = old_tight_fadein(promote(c), cb_old_tight)
    /\ cb_pc' = "start_stream"
    /\ cb_ended' = cb_ended + 1
    /\ UNCHANGED <<initialized, num_channels, dying, posted, next_handle,
                   app_vars, cb_channel, cb_mixed, cb_read, cb_pos0,
                   stream_buffer, mix_buffer, stream, cb_delivered,
                   last_call, error, fixed_vars, rv>>

\* LOCK_NAME .. UNLOCK_NAME: once the name lock is free, the ended stream
\* is pushed on the dying list and the queued slot is promoted.
callback_promote ==
    /\ cb_pc = "lock_name"
    /\ "name" \notin app_locks
    /\ LET c == channels[cb_channel]
       IN  /\ dying' = push_dying(dying, c.playing)
           /\ channels' = [channels EXCEPT ![cb_channel] = promote(c)]
           /\ cb_old_tight' = old_tight_fadein(promote(c), cb_old_tight)
    /\ cb_pc' = "start_stream"
    /\ cb_ended' = cb_ended + 1
    /\ UNCHANGED <<initialized, num_channels, closed, posted, next_handle,
                   app_vars, cb_channel, cb_mixed, cb_read, cb_pos0,
                   stream_buffer, mix_buffer, stream, cb_delivered,
                   last_call, error, fixed_vars, rv>>

\* start_stream(c, ! old_tight); continue.
callback_start_stream ==
    /\ cb_pc = "start_stream"
    /\ channels' = [channels EXCEPT ![cb_channel] =
                      start_stream(@, IF cb_old_tight = 0 THEN 1 ELSE 0)]
    /\ cb_pc' = "mix"
    /\ cb_read' = 0
    /\ cb_old_tight' = 0
    /\ UNCHANGED <<initialized, num_channels, dying, closed, posted,
                   next_handle, app_vars, cb_channel, cb_mixed, cb_ended,
                   cb_pos0, stream_buffer, mix_buffer, stream, cb_delivered,
                   last_call, error, fixed_vars, rv>>

\* ------------------------------------------------------------ locks

\* The operations above take and release their lock within one step.  The
\* actions below are the same operations with the lock request, the
\* locked section and the release as steps of their own.

\* The pcs at which the application thread is at LOCK_AUDIO().
AudioWaiting == {"play", "queue", "queue_play", "stop", "dequeue", "fadeout"}

\* The pcs at which the application thread is at LOCK_NAME().
NameWaiting == {"queue_depth", "get_pos", "periodic_lock"}

\* LOCK_AUDIO(): SDL_LockAudio returns once callback is not running.
LOCK_AUDIO ==
    /\ app_pc \in AudioWaiting
    /\ "audio" \notin app_locks
    /\ cb_pc = "idle"
    /\ app_locks' = app_locks \cup {"audio"}
    /\ UNCHANGED <<initialized, num_channels, channels, dying, closed, posted,
                   next_handle, app_pc, app_ch, periodic_d, cb_vars,
                   last_call, error, fixed_vars, rv>>

\* LOCK_NAME(): SDL_LockMutex(name_mutex) returns once the mutex is free;
\* callback holds it within callback_promote only.
LOCK_NAME ==
    /\ app_pc \in NameWaiting
    /\ "name" \notin app_locks
    /\ app_locks' = app_locks \cup {"name"}
    /\ UNCHANGED <<initialized, num_channels, channels, dying, closed, posted,
                   next_handle, app_pc, app_ch, periodic_d, cb_vars,
                   last_call, error, fixed_vars, rv>>

\* The sections between LOCK_AUDIO() and UNLOCK_AUDIO().
RPS_play_section == "audio" \in app_locks /\ RPS_play_locked

RPS_queue_play_section == "audio" \in app_locks /\ RPS_queue_play_locked

RPS_queue_section == "audio" \in app_locks /\ RPS_queue_locked

RPS_stop_section == "audio" \in app_locks /\ RPS_stop_locked

RPS_dequeue_section == "audio" \in app_locks /\ RPS_dequeue_locked

RPS_fadeout_section == "audio" \in app_locks /\ RPS_fadeout_locked

\* A query up to its LOCK_NAME(): check_channel(ch), and the thread waits
\* for the name lock at pc.
query_check(pc, ch, failed) ==
    /\ app_pc = "idle"
    /\ IF ch < 0
       THEN /\ error' = RPS_ERROR
            /\ rv' = failed
            /\ UNCHANGED <<channels, num_channels, app_pc, app_ch>>
       ELSE /\ channels' = check_channel_table(channels, num_channels, ch)
            /\ num_channels' = check_channel_count(num_channels, ch)
            /\ app_pc' = pc
            /\ app_ch' = ch
            /\ UNCHANGED <<error, rv>>
    /\ UNCHANGED <<initialized, dying, closed, posted, next_handle, periodic_d,
                   app_locks, cb_vars, last_call, fixed_vars>>

query_section_keeping_lock(value) ==
    /\ "name" \in app_locks
    /\ rv' = value
    /\ error' = SUCCESS
    /\ app_pc' = "idle"
    /\ app_ch' = 0
    /\ UNCHANGED <<initialized, num_channels, channels, dying, closed, posted,
                   next_handle, periodic_d, app_locks, cb_vars, last_call,
                   fixed_vars>>

\* A query's section under the name lock: value is read, UNLOCK_NAME(),
\* error(SUCCESS), return.
query_section(value) ==
    /\ "name" \in app_locks
    /\ rv' = value
    /\ error' = SUCCESS
    /\ app_pc' = "idle"
    /\ app_ch' = 0
    /\ app_locks' = app_locks \ {"name"}
    /\ UNCHANGED <<initialized, num_channels, channels, dying, closed, posted,
                   next_handle, periodic_d, cb_vars, last_call, fixed_vars>>

RPS_queue_depth_check ==
    \E ch \in inputs.channel : query_check("queue_depth", ch, 0)

RPS_queue_depth_section ==
    /\ app_pc = "queue_depth"
    /\ query_section(queue_depth(channels[app_ch]))

RPS_get_pos_check ==
    \E ch \in inputs.channel : query_check("get_pos", ch, -1)

RPS_get_pos_section ==
    /\ app_pc = "get_pos"
    /\ query_section(get_pos(channels[app_ch]))

\* RPS_periodic is called and is at its LOCK_NAME().
RPS_periodic_call ==
    /\ app_pc = "idle"
    /\ app_pc' = "periodic_lock"
    /\ UNCHANGED <<initialized, num_channels, channels, dying, closed, posted,
                   next_handle, app_ch, periodic_d, app_locks, cb_vars,
                   last_call, error, fixed_vars, rv>>

\* d = dying; dying = NULL; UNLOCK_NAME().
RPS_periodic_section ==
    /\ app_pc = "periodic_lock"
    /\ "name" \in app_locks
    /\ app_pc' = "periodic"
    /\ periodic_d' = dying
    /\ dying' = <<>>
    /\ app_locks' = app_locks \ {"name"}
    /\ UNCHANGED <<initialized, num_channels, channels, closed, posted,
                   next_handle, app_ch, cb_vars, last_call, error,
                   fixed_vars, rv>>

\* ------------------------------------------------------- specification

Next ==
    \/ RPS_init
    \/ RPS_quit
    \/ RPS_play_check
    \/ RPS_play_locked
    \/ RPS_queue_check
    \/ RPS_queue_play_locked
    \/ RPS_queue_locked
    \/ RPS_stop_check
    \/ RPS_stop_locked
    \/ RPS_dequeue_check
    \/ RPS_dequeue_locked
    \/ RPS_fadeout_check
    \/ RPS_fadeout_locked
    \/ RPS_pause
    \/ RPS_unpause_all_at_start
    \/ RPS_set_endevent
    \/ RPS_periodic_detach
    \/ RPS_periodic_drain
    \/ callback_begin
    \/ callback_channel
    \/ callback_mix
    \/ callback_promote
    \/ callback_start_stream

Spec == Init /\ [][Next]_vars

\* The scheduling the liveness claims rest on: a callback invocation that
\* has begun runs to its end, an operation waiting for the audio lock gets
\* it, RPS_periodic's loop runs on, and RPS_periodic keeps being called.
AppLocked ==
    \/ RPS_play_locked
    \/ RPS_queue_play_locked
    \/ RPS_queue_locked
    \/ RPS_stop_locked
    \/ RPS_dequeue_locked
    \/ RPS_fadeout_locked

CallbackRuns ==
    \/ callback_channel
    \/ callback_mix
    \/ callback_promote
    \/ callback_start_stream

Fairness ==
    /\ WF_vars(CallbackRuns)
    /\ SF_vars(AppLocked)
    /\ WF_vars(RPS_periodic_drain)
    /\ SF_vars(RPS_periodic_detach)

\* The observers are not kept: they do not bear on what the program does.
\* No end event is set: the events posted do not bear on them either.
LiveInputs == [MainInputs EXCEPT !.event = {0}]

LiveInit == InitWith(LiveInputs, {})

LiveSpec == LiveInit /\ [][Next]_vars /\ Fairness

\* The operations with their locks as steps of their own, on one channel
\* and with one value of every argument.
LockInputs ==
    [channel |-> {0}, start |-> {0}, fadein |-> {0}, tight |-> {0},
     paused |-> {0}, fadeout |-> {0}, event |-> {0}, volume |-> {0},
     video |-> {0}, sample |-> {0}]

LockInit == InitWith(LockInputs, {})

LockNext ==
    \/ RPS_init
    \/ RPS_play_check
    \/ RPS_queue_check
    \/ RPS_stop_check
    \/ RPS_dequeue_check
    \/ RPS_fadeout_check
    \/ LOCK_AUDIO
    \/ RPS_play_section
    \/ RPS_queue_play_section
    \/ RPS_queue_section
    \/ RPS_stop_section
    \/ RPS_dequeue_section
    \/ RPS_fadeout_section
    \/ RPS_queue_depth_check
    \/ RPS_get_pos_check
    \/ RPS_periodic_call
    \/ LOCK_NAME
    \/ RPS_queue_depth_section
    \/ RPS_get_pos_section
    \/ RPS_periodic_section
    \/ RPS_periodic_drain
    \/ callback_begin
    \/ callback_channel
    \/ callback_mix
    \/ callback_promote
    \/ callback_start_stream

\* The sections that end with the release of a lock.
AudioSection ==
    \/ RPS_play_section
    \/ RPS_queue_play_section
    \/ RPS_queue_section
    \/ RPS_stop_section
    \/ RPS_dequeue_section
    \/ RPS_fadeout_section

NameSection ==
    \/ RPS_queue_depth_section
    \/ RPS_get_pos_section
    \/ RPS_periodic_section

\* The scheduling the locks give: a thread that holds a lock runs on to
\* its release, and a thread that requests a lock which is free again and
\* again gets it (SDL_LockAudio and SDL_LockMutex block until then).
LockFairness ==
    /\ WF_vars(callback_channel \/ callback_mix \/ callback_start_stream)
    /\ SF_vars(callback_promote)
    /\ SF_vars(LOCK_AUDIO)
    /\ SF_vars(LOCK_NAME)
    /\ WF_vars(AudioSection)
    /\ WF_vars(NameSection)
    /\ WF_vars(RPS_periodic_drain)

LockSpec == LockInit /\ [][LockNext]_vars /\ LockFairness

\* The control operations alone, called one after another by an application
\* that also passes a negative channel number, several channels and
\* non-zero start offsets, with no device callback running in between.
ApiInputs ==
    [channel |-> -1..ApiMaxChannel, start |-> {0, 1}, fadein |-> FadeinMs,
     tight |-> Flags, paused |-> {0}, fadeout |-> FadeoutMs,
     event |-> EventTypes, volume |-> Volumes, video |-> {0},
     sample |-> {0}]

ApiInit ==
    InitWith(ApiInputs, {"play", "queue_play", "queue", "dequeue"})

ApiNext ==
    \/ RPS_init
    \/ RPS_quit
    \/ RPS_play_check
    \/ RPS_play_locked
    \/ RPS_queue_check
    \/ RPS_queue_play_locked
    \/ RPS_queue_locked
    \/ RPS_stop_check
    \/ RPS_stop_locked
    \/ RPS_dequeue_check
    \/ RPS_dequeue_locked
    \/ RPS_set_video
    \/ RPS_periodic_detach
    \/ RPS_periodic_drain

ApiSpec == ApiInit /\ [][ApiNext]_vars

\* The calls that set and read per-channel settings, with init, quit and
\* play, on a table of several channels.
TableInputs ==
    [channel |-> 0..TableMaxChannel, start |-> {0}, fadein |-> {0},
     tight |-> {0}, paused |-> Flags, fadeout |-> {0},
     event |-> EventTypes, volume |-> Volumes, video |-> VideoModes,
     sample |-> {0}]

TableInit == InitWith(TableInputs, {})

TableNext ==
    \/ RPS_init
    \/ RPS_quit
    \/ RPS_play_check
    \/ RPS_play_locked
    \/ RPS_pause
    \/ RPS_set_endevent
    \/ RPS_set_volume
    \/ RPS_set_video
    \/ RPS_get_volume
    \/ RPS_queue_depth

TableSpec == TableInit /\ [][TableNext]_vars

\* Two channels that play and queue streams of extreme samples while the
\* device callback mixes them.
MixInputs ==
    [channel |-> 0..MixMaxChannel, start |-> {0}, fadein |-> {0},
     tight |-> {0}, paused |-> {0}, fadeout |-> {0}, event |-> {0},
     volume |-> {1}, video |-> {0}, sample |-> {MIN_SHORT, 1, MAX_SHORT}]

MixInit == InitWith(MixInputs, {"callback"})

MixNext ==
    \/ RPS_init
    \/ RPS_play_check
    \/ RPS_play_locked
    \/ RPS_queue_check
    \/ RPS_queue_play_locked
    \/ RPS_queue_locked
    \/ callback_begin
    \/ callback_channel
    \/ callback_mix
    \/ callback_promote
    \/ callback_start_stream

MixSpec == MixInit /\ [][MixNext]_vars

\* Two channels that play and queue streams from different start offsets,
\* with decoders that may fail to open, while the device callback mixes
\* them and the application asks for positions.
PosInputs ==
    [channel |-> 0..PosMaxChannel, start |-> {0, 1}, fadein |-> {0},
     tight |-> {0}, paused |-> {0}, fadeout |-> {0}, event |-> {0},
     volume |-> {1}, video |-> {0}, sample |-> {0}]

PosInit == InitWith(PosInputs, {"callback", "play", "queue"})

PosNext ==
    \/ RPS_init
    \/ RPS_play_check
    \/ RPS_play_locked
    \/ RPS_queue_check
    \/ RPS_queue_play_locked
    \/ RPS_queue_locked
    \/ RPS_get_pos
    \/ callback_begin
    \/ callback_channel
    \/ callback_mix
    \/ callback_promote
    \/ callback_start_stream

PosSpec == PosInit /\ [][PosNext]_vars

\* --------------------------------------------------------------- claims

InSlot(h) ==
    \E c \in ChanIds : channels[c].playing = h \/ channels[c].queued = h

InSeq(h, q) == \E k \in 1..Len(q) : q[k] = h

Count(h, q) == Cardinality({k \in 1..Len(q) : q[k] = h})

\* The step is the locked section of the control operation pc on channel c.
LockedStep(pc, c) == app_pc = pc /\ app_ch = c /\ app_pc' = "idle"

\* The step is the callback's end-of-stream decision on channel c.
EndStep(c) == cb_pc = "mix" /\ cb_pc' = "lock_name" /\ cb_channel = c

\* The step is the callback's promotion on channel c.
PromoteStep(c) ==
    cb_pc = "lock_name" /\ cb_pc' = "start_stream" /\ cb_channel = c

\* The step is the callback's start_stream on channel c.
StartStep(c) == cb_pc = "start_stream" /\ cb_pc' = "mix" /\ cb_channel = c

\* C1: whenever a control operation has returned (the application thread is
\* between calls), every channel whose queued slot is non-empty has a
\* non-empty playing slot.
C1_QueuedImpliesPlaying ==
    app_pc = "idle" =>
        \A c \in ChanIds :
            (c < num_channels /\ channels[c].queued # NULL)
                => channels[c].playing # NULL

\* Handle h has been opened and is in no channel slot any more.
Retired(h) == h < next_handle /\ ~InSlot(h)

\* Where a handle is: in a slot and open, or retired and then on the dying
\* list once, or on RPS_periodic's detached list once, or closed once.
Accounted(h) ==
    /\ closed[h] <= 1
    /\ Count(h, dying) + Count(h, periodic_d) <= 1
    /\ (h >= next_handle \/ InSlot(h))
          => (closed[h] = 0 /\ ~InSeq(h, dying) /\ ~InSeq(h, periodic_d))
    /\ Retired(h)
          => ((closed[h] = 1) # (InSeq(h, dying) \/ InSeq(h, periodic_d)))

\* C2: every handle that has left a channel slot is closed exactly once:
\* at every moment it is closed once or waits, once, on the dying list or on
\* the reaper's detached list, never both and never neither; and if the
\* reaper keeps being called it is eventually closed.
C2_ClosedExactlyOnce ==
    /\ [](\A h \in Handles : Accounted(h))
    /\ \A h \in Handles : Retired(h) ~> (closed[h] = 1)

\* The callback has pushed a handle while the reaper is draining the list it
\* detached.
C2_Witness ==
    /\ app_pc = "periodic"
    /\ periodic_d # <<>>
    /\ dying # <<>>
    /\ cb_pc = "start_stream"

\* C3 as claimed: every close is made by the periodic reaper, of the handle
\* at the head of the list it detached from the dying list.
C3_OnlyReaperCloses ==
    [][\A h \in Handles :
          closed'[h] # closed[h]
              => (app_pc = "periodic" /\ periodic_d # <<>>
                  /\ h = Head(periodic_d))]_vars

\* C3 as amended: a handle the callback removes from a slot goes on the
\* dying list unclosed, and only the callback puts handles there; a handle
\* a control operation removes from a slot is closed by that very step and
\* never put on the dying list; every other close is the reaper's, of the
\* head of its detached list.
C3_RetirePaths ==
    [][\A h \in Handles :
          /\ (InSlot(h) /\ ~InSlot(h)')
                => IF cb_vars' # cb_vars
                   THEN /\ PromoteStep(cb_channel)
                        /\ dying' = <<h>> \o dying
                        /\ closed'[h] = closed[h]
                   ELSE /\ closed'[h] = closed[h] + 1
                        /\ dying' = dying
                        /\ ~InSeq(h, dying)
          /\ (InSeq(h, dying') /\ ~InSeq(h, dying))
                => (PromoteStep(cb_channel) /\ channels[cb_channel].playing = h)
          /\ (closed'[h] # closed[h] /\ ~InSlot(h))
                => (app_pc = "periodic" /\ periodic_d # <<>>
                    /\ h = Head(periodic_d))]_vars

\* RPS_stop has closed a playing and a queued stream itself, and the reaper
\* has closed nothing.
C3_Witness ==
    \E c \in ChanIds :
        /\ last_call[c].op = "stop"
        /\ last_call[c].a # NULL
        /\ last_call[c].b # NULL
        /\ closed[last_call[c].a] = 1
        /\ closed[last_call[c].b] = 1
        /\ dying = <<>>

\* C4: no step of the mixer callback changes any handle's close count; the
\* callback's end-of-stream handling pushes the ended handle on the dying
\* list.
C4_CallbackNeverCloses ==
    [][/\ (cb_vars' # cb_vars) => (closed' = closed)
       /\ \A c \in ChanIds :
             PromoteStep(c)
                 => (dying' = <<channels[c].playing>> \o dying)]_vars

\* The callback has just ended a stream: it is on the dying list, unclosed.
C4_Witness ==
    /\ cb_pc = "start_stream"
    /\ dying # <<>>
    /\ closed[Head(dying)] = 0

\* The last control operation on channel c was fadeout(c, ms) with ms > 0,
\* on an unpaused channel playing a with b queued.
FadedOutWithQueue(c) ==
    /\ last_call[c].op = "fadeout"
    /\ last_call[c].ms > 0
    /\ last_call[c].b # NULL

\* The last control operation on channel c was fadeout(c, 0), on an unpaused
\* channel playing a.
StoppedNow(c) == last_call[c].op = "fadeout" /\ last_call[c].ms = 0

\* a was tight and b has no fade-in: the promotion of b resets neither the
\* fade nor stop_samples.
TightPair(c) == last_call[c].a_tight # 0 /\ last_call[c].b_fadein = 0

\* C5 as claimed: after fadeout(c, ms) with ms > 0 on an unpaused channel
\* playing a with b queued, a's event is posted at most once, and b, once
\* promoted, is not ended by the stop that was scheduled for a: the callback
\* never ends b at position 0 on stop_samples = 0 while b's decoder is
\* delivering frames.
C5_QueuedSurvivesFadeout ==
    \A c \in ChanIds :
        LET f == last_call[c]
            ch == channels[c]
        IN  FadedOutWithQueue(c)
                => /\ posted[f.a] <= 1
                   /\ ~(/\ cb_pc = "lock_name"
                        /\ cb_channel = c
                        /\ ch.playing = f.b
                        /\ ch.stop_samples = 0
                        /\ ch.pos = 0
                        /\ cb_read > 0)

\* C5 as amended: after that fadeout, when the callback ends a its event is
\* posted once (if non-zero) and b is promoted; when the stop has been
\* reached, start_stream leaves b with stop_samples -1 if a was not tight or
\* b has a fade-in, and with stop_samples still 0 if a was tight and b has no
\* fade-in; and b is ended while its decoder still delivers frames only in
\* that second case.
C5_FadeoutThenPromotion ==
    /\ [](\A c \in ChanIds :
            FadedOutWithQueue(c) => posted[last_call[c].a] <= 1)
    /\ [][\A c \in ChanIds :
            LET f == last_call[c]
                ch == channels[c]
                ch2 == channels'[c]
            IN  FadedOutWithQueue(c)
                  => /\ (EndStep(c) /\ ch.playing = f.a)
                           => (/\ posted[f.a] = 0
                               /\ posted' = [posted EXCEPT ![f.a] =
                                     IF ch.event # 0 THEN 1 ELSE 0])
                     /\ (PromoteStep(c) /\ ch.playing = f.a)
                           => (ch2.playing = f.b /\ ch2.queued = NULL)
                     /\ (StartStep(c) /\ ch.playing = f.b
                         /\ ch.stop_samples = 0)
                           => ch2.stop_samples =
                                 IF TightPair(c) THEN 0 ELSE -1
                     /\ (EndStep(c) /\ ch.playing = f.b /\ cb_read' > 0)
                           => TightPair(c)]_vars

\* After such a fadeout a has ended, its event is posted, and b has been
\* promoted and is being mixed with no stop scheduled.
C5_Witness ==
    \E c \in ChanIds :
        /\ FadedOutWithQueue(c)
        /\ posted[last_call[c].a] = 1
        /\ channels[c].playing = last_call[c].b
        /\ channels[c].pos > 0
        /\ channels[c].stop_samples = -1
        /\ InSeq(last_call[c].a, dying)

\* C6 as claimed: after fadeout(c, 0) on an unpaused channel playing a
\* (with b queued or not), a is ended before any of its frames is mixed, and
\* the invocation that ends a posts the event once: it does not go on to end
\* b, with b's decoder delivering frames, and post the event again.
C6_ImmediateStopPostsOnce ==
    \A c \in ChanIds :
        LET f == last_call[c]
            ch == channels[c]
        IN  StoppedNow(c)
                => /\ ch.playing = f.a
                        => (ch.stop_samples = 0
                            /\ (cb_pc = "mix" /\ cb_channel = c
                                    => cb_mixed = 0))
                   /\ ~(/\ cb_pc = "lock_name"
                        /\ cb_channel = c
                        /\ cb_ended >= 1
                        /\ f.b # NULL
                        /\ ch.playing = f.b
                        /\ cb_read > 0
                        /\ posted[f.a] = 1
                        /\ posted[f.b] = 1)

\* C6 as amended: after that fadeout, a stays at stop_samples 0 with none of
\* its frames mixed, and the first thing the callback does with it is to end
\* it, posting its event once (if non-zero); start_stream then leaves a
\* promoted b with stop_samples -1 if a was not tight or b has a fade-in, and
\* with stop_samples still 0 if a was tight and b has no fade-in; b is ended
\* while its decoder still delivers frames only in that second case, and
\* then in the same invocation, before any of its frames is mixed.
C6_ImmediateStop ==
    /\ [](\A c \in ChanIds :
            StoppedNow(c)
              => /\ posted[last_call[c].a] <= 1
                 /\ channels[c].playing = last_call[c].a
                      => (channels[c].stop_samples = 0
                          /\ (cb_pc = "mix" /\ cb_channel = c
                                  => cb_mixed = 0)))
    /\ [][\A c \in ChanIds :
            LET f == last_call[c]
                ch == channels[c]
                ch2 == channels'[c]
            IN  StoppedNow(c)
                  => /\ (cb_pc = "mix" /\ cb_channel = c /\ ch.playing = f.a
                         /\ cb_vars' # cb_vars)
                           => (/\ EndStep(c)
                               /\ ch2 = ch
                               /\ posted[f.a] = 0
                               /\ posted' = [posted EXCEPT ![f.a] =
                                     IF ch.event # 0 THEN 1 ELSE 0])
                     /\ (StartStep(c) /\ f.b # NULL /\ ch.playing = f.b)
                           => ch2.stop_samples =
                                 IF TightPair(c) THEN 0 ELSE -1
                     /\ (EndStep(c) /\ f.b # NULL /\ ch.playing = f.b
                         /\ cb_read' > 0)
                           => (/\ TightPair(c)
                               /\ cb_ended >= 1
                               /\ cb_mixed = 0
                               /\ ch.pos = 0)]_vars

\* After fadeout(c, 0) the callback has ended a, posted its event once, and
\* promoted b, which is being mixed.
C6_Witness ==
    \E c \in ChanIds :
        /\ StoppedNow(c)
        /\ posted[last_call[c].a] = 1
        /\ last_call[c].b # NULL
        /\ channels[c].playing = last_call[c].b
        /\ posted[last_call[c].b] = 0
        /\ channels[c].pos > 0
        /\ cb_ended = 1

\* C7: no stream's event is posted twice and none is posted for an empty
\* channel; when the decoder returns 0 frames with nothing queued, the event
\* is posted once if it is non-zero; the promotion that follows leaves the
\* channel empty (queue_depth 0, get_pos -1); and while a channel is empty
\* the callback posts nothing.
C7_EndOfData ==
    /\ [](\A h \in Handles : posted[h] <= 1)
    /\ [](posted[NULL] = 0)
    /\ [][\A c \in ChanIds :
            LET ch == channels[c]
            IN  /\ (EndStep(c) /\ cb_read' = 0 /\ ch.queued = NULL)
                      => (/\ posted[ch.playing] = 0
                          /\ posted' = [posted EXCEPT ![ch.playing] =
                                IF ch.event # 0 THEN 1 ELSE 0])
                /\ (PromoteStep(c) /\ ch.queued = NULL)
                      => (/\ channels'[c].playing = NULL
                          /\ channels'[c].queued = NULL
                          /\ queue_depth(channels'[c]) = 0
                          /\ get_pos(channels'[c]) = -1)
                /\ (ch.playing = NULL /\ cb_channel = c /\ cb_vars' # cb_vars)
                      => posted' = posted]_vars

\* A stream has reached end-of-data with nothing queued: its event is
\* posted once and the channel is empty.
C7_Witness ==
    /\ cb_pc = "start_stream"
    /\ cb_read = 0
    /\ cb_ended = 1
    /\ channels[cb_channel].playing = NULL
    /\ channels[cb_channel].queued = NULL
    /\ dying # <<>>
    /\ posted[Head(dying)] = 1

\* The fade ramp start_stream sets for the stream in the playing slot.
FadeInRamp(c) ==
    [start |-> 0, end |-> 1, done |-> 0,
     duration |-> ms_to_samples(c.playing_fadein)]

\* C8: a promotion of a queued stream empties the queued slot and leaves
\* fade and stop_samples alone while it decides reset_fade, which is true
\* iff the old stream was not tight or the promoted one has a fade-in;
\* nothing touches fade, stop_samples or the fade-in before start_stream;
\* start_stream sets pos to 0, and sets the 0-to-1 ramp and stop_samples -1
\* iff reset_fade, leaving all four fade fields and stop_samples as they
\* were otherwise.
C8_PromotionFade ==
    [][\A c \in ChanIds :
          LET ch == channels[c]
              ch2 == channels'[c]
          IN  /\ (PromoteStep(c) /\ ch.queued # NULL)
                    => (/\ ch2.playing = ch.queued
                        /\ ch2.queued = NULL
                        /\ ch2.playing_fadein = ch.queued_fadein
                        /\ ch2.fade = ch.fade
                        /\ ch2.stop_samples = ch.stop_samples
                        /\ ch2.pos = ch.pos
                        /\ (cb_old_tight' = 0)
                              <=> (ch.playing_tight = 0
                                   \/ ch.queued_fadein # 0))
              /\ (cb_pc = "start_stream" /\ cb_channel = c
                  /\ cb_pc' = cb_pc)
                    => (/\ ch2.fade = ch.fade
                        /\ ch2.stop_samples = ch.stop_samples
                        /\ ch2.playing_fadein = ch.playing_fadein
                        /\ ch2.playing = ch.playing
                        /\ cb_old_tight' = cb_old_tight)
              /\ (StartStep(c) /\ ch.playing # NULL)
                    => (/\ ch2.pos = 0
                        /\ ch2.queued = NULL
                        /\ ch2.playing = ch.playing
                        /\ IF cb_old_tight = 0
                           THEN /\ ch2.fade = FadeInRamp(ch)
                                /\ ch2.stop_samples = -1
                           ELSE /\ ch2.fade = ch.fade
                                /\ ch2.stop_samples = ch.stop_samples)]_vars

\* A queued stream has been promoted behind a tight stream without a fade
\* reset: a fade-out begun on the old stream is still counting down.
C8_Witness ==
    /\ cb_pc = "mix"
    /\ cb_ended = 1
    /\ channels[cb_channel].playing # NULL
    /\ channels[cb_channel].pos = 0
    /\ channels[cb_channel].stop_samples > 0
    /\ channels[cb_channel].fade.end = 0

\* C9 as claimed: fadeout(c, ms) with ms > 0 leaves the fade interpolator
\* with start = what get_interpolate reported just before the call, end 0,
\* done 0, duration ms_to_samples(ms), and stop_samples = ms_to_samples(ms).
C9_FadeoutSeedsFromCurrent ==
    [][\A c \in ChanIds :
          (LockedStep("fadeout", c) /\ channels'[c].stop_samples # 0)
              => \E ms \in inputs.fadeout \ {0} :
                    /\ channels'[c].stop_samples = ms_to_samples(ms)
                    /\ channels'[c].fade =
                          [start |-> get_interpolate(channels[c].fade),
                           end |-> 0, done |-> 0,
                           duration |-> ms_to_samples(ms)]]_vars

\* C10: the locked section of stop(c) leaves both slots empty, so that
\* queue_depth is 0, get_pos is -1 and the playing name is null, and posts
\* the event once for the stream that was playing if there was one and the
\* event is non-zero, and posts nothing otherwise.
C10_StopEmpties ==
    [][\A c \in ChanIds :
          LockedStep("stop", c)
              => LET ch == channels[c]
                     ch2 == channels'[c]
                 IN  /\ ch2.playing = NULL
                     /\ ch2.queued = NULL
                     /\ queue_depth(ch2) = 0
                     /\ get_pos(ch2) = -1
                     /\ playing_name(ch2) = NoName
                     /\ posted' = IF ch.playing # NULL /\ ch.event # 0
                                  THEN [posted EXCEPT ![ch.playing] = @ + 1]
                                  ELSE posted]_vars

\* stop has returned on a channel that was playing one stream with another
\* queued, and has posted the event for the playing one.
C10_Witness ==
    \E c \in ChanIds :
        /\ app_pc = "idle"
        /\ last_call[c].op = "stop"
        /\ last_call[c].a # NULL
        /\ last_call[c].b # NULL
        /\ posted[last_call[c].a] = 1
        /\ posted[last_call[c].b] = 0
        /\ queue_depth(channels[c]) = 0

\* The arguments of a play(..., paused=false) call.
UnpausedPlayArgs ==
    [name : Names, fadein : inputs.fadein, tight : inputs.tight,
     paused : {0}, start : inputs.start]

\* C11: queue on a channel whose playing slot is empty takes the path of
\* play, and leaves the channel, the error code and the decoders as some
\* play(..., paused=false) on the same channel state leaves them: on
\* success the new stream is in the playing slot, nothing is queued, the
\* channel is unpaused, pos = 0, stop_samples = -1, the fade ramps 0 to 1
\* over ms_to_samples(fadein) and the error code is SUCCESS; on a failed
\* open both slots are empty and the error code is SOUND_ERROR.
C11_QueueOnEmptyIsPlay ==
    [][\A c \in ChanIds :
          LET ch == channels[c]
              ch2 == channels'[c]
              tested == check_channel_table(channels, num_channels, c)[c]
              freed == play_free(ch)
          IN  /\ (app_pc = "idle" /\ app_pc' \in {"queue", "queue_play"}
                  /\ app_ch' = c)
                    => (app_pc' = "queue_play" <=> tested.playing = NULL)
              /\ LockedStep("queue_play", c)
                    => (/\ \/ /\ \E a \in UnpausedPlayArgs :
                                    ch2 = play_load(freed, next_handle, a)
                              /\ error' = SUCCESS
                              /\ next_handle' = next_handle + 1
                           \/ /\ ch2 = freed
                              /\ error' = SOUND_ERROR
                              /\ next_handle' = next_handle
                        /\ closed' = free_slots(closed,
                                                <<ch.playing, ch.queued>>)
                        /\ posted' = posted
                        /\ IF error' = SUCCESS
                           THEN /\ ch2.playing = next_handle
                                /\ ch2.queued = NULL
                                /\ ch2.paused = 0
                                /\ ch2.pos = 0
                                /\ ch2.stop_samples = -1
                                /\ ch2.fade = FadeInRamp(ch2)
                           ELSE /\ ch2.playing = NULL
                                /\ ch2.queued = NULL)]_vars

\* queue has just started a stream with a fade-in on an empty channel.
C11_Witness ==
    \E c \in ChanIds :
        /\ app_pc = "idle"
        /\ last_call[c].op = "queue_play"
        /\ last_call[c].a # NULL
        /\ channels[c].playing = last_call[c].a
        /\ channels[c].paused = 0
        /\ channels[c].fade.duration > 0
        /\ error = SUCCESS

\* C12: dequeue(c, even_tight) removes (and closes once) the queued stream
\* iff a stream is queued and the playing stream is not tight or
\* even_tight is true; otherwise the queued stream stays where it is and
\* nothing is closed, so with a tight stream playing and even_tight false
\* queue_depth stays 2; the playing slot's decoder, name, tight flag and
\* pos are the same after every dequeue.
C12_DequeueRemoves ==
    [][\A c \in ChanIds :
          LET ch == channels[c]
              ch2 == channels'[c]
              even_tight == last_call'[c].ms
              removes == /\ ch.queued # NULL
                         /\ (ch.playing_tight = 0 \/ even_tight # 0)
          IN  LockedStep("dequeue", c)
                => (/\ even_tight \in inputs.tight
                    /\ IF removes
                       THEN /\ ch2.queued = NULL
                            /\ closed' = free_stream(closed, ch.queued)
                       ELSE /\ ch2.queued = ch.queued
                            /\ closed' = closed
                    /\ (ch.playing # NULL /\ ch.queued # NULL
                        /\ ch.playing_tight # 0 /\ even_tight = 0)
                          => (queue_depth(ch) = 2 /\ queue_depth(ch2) = 2)
                    /\ ch2.playing = ch.playing
                    /\ ch2.playing_name = ch.playing_name
                    /\ ch2.playing_tight = ch.playing_tight
                    /\ ch2.pos = ch.pos)]_vars

\* dequeue(c, false) has just left a stream queued behind a tight stream
\* that has played some frames.
C12_Witness ==
    \E c \in ChanIds :
        /\ app_pc = "idle"
        /\ last_call[c].op = "dequeue"
        /\ last_call[c].ms = 0
        /\ last_call[c].a # NULL
        /\ last_call[c].b # NULL
        /\ channels[c].playing = last_call[c].a
        /\ channels[c].queued = last_call[c].b
        /\ channels[c].playing_tight # 0
        /\ channels[c].pos > 0

\* C13 as claimed: when dequeue(c, even_tight) leaves the queued stream in
\* place (a stream is queued, the playing stream is tight and even_tight
\* is false), queued_tight becomes 0 and no other field of the channel
\* changes: the queued decoder, name, fade-in and start offset are as
\* before, so the offset get_pos adds after promotion is the one the
\* stream was queued with.
C13_DequeueClearsTightOnly ==
    [][\A c \in ChanIds :
          LET ch == channels[c]
              ch2 == channels'[c]
          IN  (LockedStep("dequeue", c) /\ ch.queued # NULL
               /\ ch.playing_tight # 0 /\ last_call'[c].ms = 0)
                => (/\ ch2 = [ch EXCEPT !.queued_tight = 0]
                    /\ ch2.queued_start_ms = ch.queued_start_ms)]_vars

\* C14 as claimed: every step on which a control entry point returns
\* leaves the error code at the outcome of that call: SOUND_ERROR when the
\* call was a play or queue whose decoder did not open, RPS_ERROR only
\* when it named a negative channel (and so changed nothing), and SUCCESS
\* otherwise, whatever the error code was before the call.
C14_ErrorIsOutcome ==
    [][(app_pc' = "idle")
          => IF /\ app_pc \in {"play", "queue", "queue_play"}
                /\ next_handle' = next_handle
             THEN error' = SOUND_ERROR
             ELSE /\ error' \in {SUCCESS, RPS_ERROR}
                  /\ (error' = RPS_ERROR)
                        => (/\ app_pc = "idle"
                            /\ UNCHANGED <<channels, num_channels,
                                           initialized>>)]_vars

\* The step is RPS_quit.
QuitStep == initialized # 0 /\ initialized' = 0

\* Channel c2 is c except, at most, in the one setting a setter assigns.
OneSettingApart(c, c2) ==
    \/ c2 = c
    \/ \E v \in Volumes : c2 = [c EXCEPT !.mixer_volume = v]
    \/ \E v \in VideoModes : c2 = [c EXCEPT !.video = v]
    \/ \E v \in Flags : c2 = [c EXCEPT !.paused = v]
    \/ \E v \in EventTypes : c2 = [c EXCEPT !.event = v]

\* What every growth of the table does: the call's channel is in the table
\* afterwards, the channels created below it are empty, paused, with
\* mixer_volume 1 and event 0, the one it names is so but for the setting
\* the call assigns, and the channels the table held keep all their state.
TableGrowth ==
    /\ (app_pc' \notin {"idle", "periodic"}) => app_ch' < num_channels'
    /\ \A c \in ChanIds :
          /\ (channels'[c] # channels[c]) => (c < num_channels' \/ QuitStep)
          /\ (num_channels' > num_channels /\ c < num_channels)
                => channels'[c] = channels[c]
          /\ (num_channels <= c /\ c < num_channels' - 1)
                => channels'[c] = new_channel
          /\ (num_channels <= c /\ c = num_channels' - 1)
                => OneSettingApart(new_channel, channels'[c])

\* C16 as claimed: through every control operation, quit and init
\* included, the table never loses an index it held, a call naming an
\* index beyond the count creates the channels up to it with the initial
\* settings, and the channels that existed keep all their state.
C16_TableOnlyGrows ==
    [][(num_channels' >= num_channels) /\ TableGrowth]_vars

\* C16: between two quits the table never loses an index, a call naming
\* an index beyond the count creates the channels up to it with the
\* initial settings, and the channels the table holds keep all their
\* state; quit empties every slot and sets the count to 0, so that the
\* next call naming a channel creates every index again with the initial
\* settings (paused, mixer_volume 1, event 0, video 0).
C16_TableGrowsUntilQuit ==
    [][/\ IF QuitStep
          THEN /\ num_channels' = 0
               /\ \A c \in ChanIds :
                     c < num_channels
                        => (/\ channels'[c].playing = NULL
                            /\ channels'[c].queued = NULL)
          ELSE num_channels' >= num_channels
       /\ TableGrowth]_vars

\* After a quit and an init, a call has created channel 0 again with the
\* initial mixer volume and pause flag, while channel 1, set to volume 0
\* before the quit, is no longer in the table.
C16_Witness ==
    /\ initialized = 1
    /\ num_channels = 1
    /\ channels[1].mixer_volume = 0
    /\ channels[0].mixer_volume = 1
    /\ channels[0].paused = 1
    /\ channels[0].event = 1

\* The step ends the callback's work on channel c in this invocation.
ChannelDone(c) == cb_pc = "mix" /\ cb_pc' = "channel" /\ cb_channel = c

\* C17 as claimed: when the callback leaves a channel that was non-paused
\* and non-empty at the start of the invocation, the channel's pos is its
\* pos at the start plus the number of frames mixed from the channel in the
\* invocation, also when a stream ended and a queued one was promoted.
C17_PosAdvancesByMixed ==
    [][\A c \in ChanIds :
          ChannelDone(c) => channels[c].pos = cb_pos0 + cb_mixed]_vars

\* C17: within an invocation pos advances by one for every frame mixed from
\* the channel and start_stream sets it to 0 for the stream that takes the
\* playing slot; so when the callback leaves the channel, pos is its pos at
\* the start plus the frames mixed if no stream of the channel ended in the
\* invocation, and otherwise the number of frames mixed from the stream now
\* in the playing slot, which is at most the frames mixed in the
\* invocation.
C17_PosCountsFramesOfStream ==
    [][\A c \in ChanIds :
          LET ch == channels[c]
              ch2 == channels'[c]
          IN  /\ (cb_pc \in {"mix", "lock_name"} /\ cb_channel = c)
                    => ch2.pos - ch.pos = cb_mixed' - cb_mixed
                       \/ ChannelDone(c)
              /\ StartStep(c) => (ch2.pos = 0 /\ cb_mixed' = cb_mixed)
              /\ ChannelDone(c)
                    => (/\ ch2.pos = ch.pos
                        /\ IF cb_ended = 0
                           THEN ch.pos = cb_pos0 + cb_mixed
                           ELSE /\ ch.pos = ch.played
                                /\ ch.pos <= cb_mixed)]_vars

\* A stream ended part-way through the buffer and the promoted stream has
\* filled the rest of it: of the frames mixed in the invocation only the
\* later ones are the promoted stream's, and pos counts those.
C17_Witness ==
    /\ cb_pc = "mix"
    /\ cb_ended > 0
    /\ cb_mixed = Frames
    /\ channels[cb_channel].playing # NULL
    /\ channels[cb_channel].pos > 0
    /\ channels[cb_channel].pos < cb_mixed

\* The step on which the callback writes the device buffer.
OutputStep == cb_pc = "channel" /\ cb_pc' = "idle"

\* The mixed value 1.0 in the accumulator's units of 1/32768.
One == -MIN_SHORT

\* C18 as claimed: every output sample whose mixed value is >= 1.0 is
\* written as 32767 and every one whose mixed value is <= -1.0 as -32768,
\* exactly 1.0 and exactly -1.0 included.
C18_ClipsToExtremes ==
    [][OutputStep
          => \A m \in FrameIds :
                /\ (mix_buffer[m] >= One) => stream'[m] = MAX_SHORT
                /\ (mix_buffer[m] <= -One) => stream'[m] = MIN_SHORT]_vars

\* C18: the output saturates and never wraps around: a mixed value
\* >= 1.0 is written as 32767; a mixed value <= -1.0 is written as -32767
\* or -32768, exactly -1.0 as -32767 (the value is scaled by 32767, not
\* 32768) and anything at or below -1.0 - 2/32768 as -32768; a mixed value
\* strictly between -1.0 and 1.0 is written strictly between the extremes
\* with its own sign.
C18_Saturates ==
    [][OutputStep
          => \A m \in FrameIds :
                LET mix == mix_buffer[m]
                    out == stream'[m]
                IN  /\ (mix >= One) => out = MAX_SHORT
                    /\ (mix <= -One) => out \in {MIN_SHORT, -MAX_SHORT}
                    /\ (mix = -One) => out = -MAX_SHORT
                    /\ (mix <= -One - 2) => out = MIN_SHORT
                    /\ (mix > -One /\ mix < One)
                          => (/\ out > -MAX_SHORT
                              /\ out < MAX_SHORT
                              /\ out * mix >= 0)]_vars

\* The callback has written an invocation's output in which one frame was
\* mixed to exactly -1.0 (a single channel delivered -32768) and came out
\* as -32767.
C18_Witness ==
    /\ cb_pc = "idle"
    /\ \E m \in FrameIds :
          /\ mix_buffer[m] = -One
          /\ stream[m] = -MAX_SHORT

\* C19 as claimed: all through an invocation, what has been accumulated at
\* each output position is the sum of the frames the decoders delivered
\* for that position, the i-th frame of a read issued at mixed = m0 being
\* due at position m0 + i, however the decoder splits its reads and also
\* after a promotion part-way through the buffer.
C19_FramesLandWhereDelivered ==
    (cb_pc # "idle") => \A m \in FrameIds : mix_buffer[m] = cb_delivered[m]

\* The step is the locked section of a play or queue on channel c whose
\* decoder did not open.
FailedOpen(pc, c) == LockedStep(pc, c) /\ next_handle' = next_handle

\* C15: a play or queue whose decoder does not open returns with the error
\* code SOUND_ERROR and the slot it was filling empty (the playing slot
\* for play, and for queue on an empty channel; the queued slot for
\* queue); a failed queue leaves the playing slot and pos of its channel
\* as they were; no field of any other channel changes.
C15_FailedOpen ==
    [][\A c \in ChanIds :
          LET ch == channels[c]
              ch2 == channels'[c]
              others == \A d \in ChanIds \ {c} : channels'[d] = channels[d]
          IN  /\ (FailedOpen("play", c) \/ FailedOpen("queue_play", c))
                    => (/\ error' = SOUND_ERROR
                        /\ ch2.playing = NULL
                        /\ others)
              /\ FailedOpen("queue", c)
                    => (/\ error' = SOUND_ERROR
                        /\ ch2.queued = NULL
                        /\ ch2.playing = ch.playing
                        /\ ch2.playing_name = ch.playing_name
                        /\ ch2.playing_start_ms = ch.playing_start_ms
                        /\ ch2.pos = ch.pos
                        /\ others)]_vars

\* A queue has just failed to open its decoder on a channel whose playing
\* stream has played some frames, while another channel is playing too.
C15_Witness ==
    \E c \in ChanIds :
        /\ app_pc = "idle"
        /\ error = SOUND_ERROR
        /\ last_call[c].op = "queue"
        /\ last_call[c].b = NULL
        /\ channels[c].playing # NULL
        /\ channels[c].queued = NULL
        /\ channels[c].pos > 0
        /\ \E d \in ChanIds \ {c} : channels[d].playing # NULL

\* C20 as claimed: whenever get_pos(c) runs, also while the callback is
\* between two of its steps, it returns -1 or the position of the stream
\* in the playing slot: the frames mixed from that stream, in ms, plus
\* that stream's start offset.
C20_GetPosOfOneStream ==
    [][\A c \in ChanIds :
          query(c, -1, get_pos(checked_channel(c)))
             => \/ rv' = -1
                \/ rv' = samples_to_ms(channels'[c].played)
                            + channels'[c].playing_start_ms]_vars

\* C21: every callback invocation that begins runs to its end; each
\* iteration of a channel's mixing loop (the loop condition holding) either
\* mixes at least one frame or goes on to retire the playing stream; a
\* retirement leaves the queued slot empty, and no more than two streams
\* are retired per channel per invocation.
C21_CallbackTerminates ==
    /\ [][\A c \in ChanIds :
             /\ (callback_mix /\ cb_channel = c /\ cb_mixed < Frames
                 /\ channels[c].playing # NULL)
                   => (\/ (cb_mixed' > cb_mixed /\ cb_pc' = "mix")
                       \/ (cb_mixed' = cb_mixed /\ cb_pc' = "lock_name"))
             /\ PromoteStep(c)
                   => (/\ channels'[c].queued = NULL
                       /\ cb_ended' = cb_ended + 1)]_vars
    /\ [](cb_ended <= 2)
    /\ [](cb_mixed <= Frames)
    /\ ((cb_pc # "idle") ~> (cb_pc = "idle"))

\* The callback has retired both the playing and the queued stream of a
\* channel in one invocation and is about to leave the channel's loop.
C21_Witness ==
    /\ cb_pc = "mix"
    /\ cb_ended = 2
    /\ channels[cb_channel].playing = NULL
    /\ Len(dying) >= 2

\* C22: the audio lock and the name lock cannot deadlock.  The application
\* thread never waits for the audio lock while it holds the name lock and
\* never waits for the name lock while it holds the audio lock (callback
\* alone asks for the name lock with the audio lock held); it holds at
\* most one of the two, and none once its operation has returned; callback
\* never runs while the application holds the audio lock; and every lock
\* request is granted: a thread at LOCK_AUDIO() gets the audio lock, a
\* thread at LOCK_NAME() gets the name lock, and callback at its LOCK_NAME()
\* goes on to start_stream.
C22_LocksNeverDeadlock ==
    /\ [](app_pc \in AudioWaiting => "name" \notin app_locks)
    /\ [](app_pc \in NameWaiting => "audio" \notin app_locks)
    /\ [](app_locks # {"audio", "name"})
    /\ [](app_pc \in {"idle", "periodic"} => app_locks = {})
    /\ [](cb_pc # "idle" => "audio" \notin app_locks)
    /\ ((app_pc \in AudioWaiting) ~> ("audio" \in app_locks))
    /\ ((app_pc \in NameWaiting) ~> ("name" \in app_locks))
    /\ (("audio" \in app_locks) ~> (app_pc = "idle"))
    /\ (("name" \in app_locks) ~> (app_locks = {}))
    /\ ((cb_pc = "lock_name") ~> (cb_pc = "start_stream"))

\* callback, holding the audio lock, waits at LOCK_NAME() for the name
\* lock that a query of the application thread holds.
C22_Witness ==
    /\ cb_pc = "lock_name"
    /\ "name" \in app_locks
    /\ app_pc \in NameWaiting

\* C23: while an invocation of callback is in progress the channel table
\* is not resized and none of its entries is created anew: no step taken
\* then changes num_channels (by check_channel's growth or by quit's
\* num_channels = 0) or writes an entry at or beyond num_channels.
C23_TableFixedDuringCallback ==
    [][(cb_pc # "idle")
          => (/\ num_channels' = num_channels
              /\ \A c \in ChanIds :
                    c >= num_channels => channels'[c] = channels[c])]_vars

====
